---- MODULE Spec2Model ----
(***************************************************************************)
(* Model of server.py: the Ukrainian dictionary lookup engine.             *)
(*                                                                         *)
(* A string is a sequence of Unicode code points (Python compares and      *)
(* indexes str by code point).  An optional value (None in Python) is the  *)
(* empty tuple <<>>, a present value v is <<v>>.  A query or a             *)
(* part-of-speech filter that is None behaves in every test of the code    *)
(* (`if search_query`, `if pos_filter`) like the empty string, and is      *)
(* modelled by it.                                                         *)
(***************************************************************************)
EXTENDS Integers, Sequences, FiniteSets, TLC

VARIABLES
    words_data,       \* server.py:27   the loaded entries, in file order
    freq_data,        \* server.py:69   entries in frequency order
    alpha_data,       \* server.py:75   entries in alphabetical order
    index_lookup,     \* server.py:81   term id -> [word, indexes]
    word_dict_sets,   \* server.py:89   letter -> set of term ids
    pc,               \* position of the process: "sort", "index", "serve"
                      \* (waiting for a call), "return" (in lookup_words, at
                      \* its return statement)
    call,             \* arguments of the most recent lookup_words call
    result,           \* what that call returned
    first,            \* history: the first lookup_words call and its result
    scan_text,        \* remove_parentheticals: its argument
    scan_pos,         \* remove_parentheticals: characters consumed so far
    paren_depth,      \* remove_parentheticals: server.py:133
    scan_result       \* remove_parentheticals: server.py:132

vars == <<words_data, freq_data, alpha_data, index_lookup, word_dict_sets,
          pc, call, result, first,
          scan_text, scan_pos, paren_depth, scan_result>>

model_vars == <<words_data, freq_data, alpha_data, index_lookup, word_dict_sets>>
scan_vars == <<scan_text, scan_pos, paren_depth, scan_result>>

-----------------------------------------------------------------------------
(* Bounds of the model.                                                    *)

MaxEntries == 3
MaxKeyLen == 2
MaxScanLen == 4

-----------------------------------------------------------------------------
(* Characters (code points).                                               *)

SPACE == 32
QUOTE == 34
LPAREN == 40
RPAREN == 41
DIGIT0 == 48
LAT_A == 97
LAT_Z == 122
STRESS == 769
CYR_HE == 1075
CYR_DE == 1076
CYR_K == 1082
CYR_O == 1086
CYR_T == 1090
CYR_I == 1110
CYR_YI == 1111
CYR_GHE == 1169

\* Characters that only the data of the model uses: "-", "b", "А", "К".
DataChar == [hyphen |-> 45, lat_b |-> 98, cyr_cap_a |-> 1040, cyr_cap_k |-> 1050]

None == <<>>
Some(v) == <<v>>

Range(s) == {s[i] : i \in DOMAIN s}

\* str.lower() on the characters of the model: Latin A-Z, Cyrillic
\* U+0410..U+042F (+32), U+0400..U+040F (+80), U+0490 (+1).
LowerChar(c) ==
    IF c >= 65 /\ c <= 90 THEN c + 32
    ELSE IF c >= 1040 /\ c <= 1071 THEN c + 32
    ELSE IF c >= 1024 /\ c <= 1039 THEN c + 80
    ELSE IF c = 1168 THEN 1169
    ELSE c

lower(s) == [i \in DOMAIN s |-> LowerChar(s[i])]

\* s.replace("́", "")
IsNotStress(c) == c # STRESS
strip_stress(s) == SelectSeq(s, IsNotStress)

\* Python's comparison of two str (or of two tuples of ints): -1, 0, 1.
RECURSIVE StrCmp(_, _)
StrCmp(a, b) ==
    IF a = <<>> THEN (IF b = <<>> THEN 0 ELSE -1)
    ELSE IF b = <<>> THEN 1
    ELSE IF Head(a) < Head(b) THEN -1
    ELSE IF Head(a) > Head(b) THEN 1
    ELSE StrCmp(Tail(a), Tail(b))

\* sorted(seq, key=...): a stable sort.  keyed is the sequence of
\* [v |-> element, k |-> its key]; an element is inserted after every
\* element whose key is <= its own.
RECURSIVE InsertSorted(_, _)
InsertSorted(x, s) ==
    IF s = <<>> THEN <<x>>
    ELSE IF StrCmp(Head(s).k, x.k) <= 0 THEN <<Head(s)>> \o InsertSorted(x, Tail(s))
    ELSE <<x>> \o s

RECURSIVE SortKeyed(_)
SortKeyed(keyed) ==
    IF keyed = <<>> THEN <<>>
    ELSE InsertSorted(keyed[Len(keyed)], SortKeyed(SubSeq(keyed, 1, Len(keyed) - 1)))

sorted(s, keys) ==
    LET keyed == [i \in DOMAIN s |-> [v |-> s[i], k |-> keys[i]]]
        out == SortKeyed(keyed)
    IN  [i \in DOMAIN out |-> out[i].v]

Reverse(s) == [i \in DOMAIN s |-> s[Len(s) + 1 - i]]

-----------------------------------------------------------------------------
(* Ukrainian alphabetical sorting, server.py:47-78.                        *)

\* The keys of UKRAINIAN_SORT_MAP in the order they are written, and the
\* ASCII characters they map to: "0".."9", ":", ";", "<", "?", "@",
\* "A".."I", "K".."S".
UkrLetters ==
    <<1072, 1073, 1074, 1075, 1169, 1076, 1077, 1108, 1078, 1079, 1080,
      1110, 1111, 1081, 1082, 1083, 1084, 1085, 1086, 1087, 1088, 1089,
      1090, 1091, 1092, 1093, 1094, 1095, 1096, 1097, 1100, 1102, 1103>>
UkrKeyChars ==
    <<48, 49, 50, 51, 52, 53, 54, 55, 56, 57, 58,
      59, 60, 63, 64, 65, 66, 67, 68, 69, 70, 71,
      72, 73, 75, 76, 77, 78, 79, 80, 81, 82, 83>>

UKRAINIAN_SORT_MAP ==
    [c \in Range(UkrLetters) |->
        UkrKeyChars[CHOOSE i \in DOMAIN UkrLetters : UkrLetters[i] = c]]

SortKeyNoLower(word) ==
    LET normalized == strip_stress(word)
    IN  [i \in DOMAIN normalized |->
            IF normalized[i] \in DOMAIN UKRAINIAN_SORT_MAP
            THEN UKRAINIAN_SORT_MAP[normalized[i]] ELSE normalized[i]]

ukrainian_sort_key(word) ==
    LET normalized == strip_stress(lower(word))
    IN  [i \in DOMAIN normalized |->
            IF normalized[i] \in DOMAIN UKRAINIAN_SORT_MAP
            THEN UKRAINIAN_SORT_MAP[normalized[i]] ELSE normalized[i]]

\* key=lambda w: (w.get("freq") is None, w.get("freq") or 0)
FreqKey(w) == IF w.freq = None THEN <<1, 0>> ELSE <<0, w.freq[1]>>

\* key=lambda w: ukrainian_sort_key(w.get("word", ""))
AlphaKey(w) == ukrainian_sort_key(w.word)

sort_by_freq(words) == sorted(words, [i \in DOMAIN words |-> FreqKey(words[i])])
sort_by_alpha(words) == sorted(words, [i \in DOMAIN words |-> AlphaKey(words[i])])

-----------------------------------------------------------------------------
(* Helper functions for search, server.py:98-141.                          *)

\* text.replace("ї", "і").replace("ґ", "г")
NormalizeChar(c) == IF c = CYR_YI THEN CYR_I ELSE IF c = CYR_GHE THEN CYR_HE ELSE c
normalize_letter(text) == [i \in DOMAIN text |-> NormalizeChar(text[i])]

RECURSIVE ConcatAll(_)
ConcatAll(ss) == IF ss = <<>> THEN <<>> ELSE Head(ss) \o ConcatAll(Tail(ss))

\* A forms value is a tagged node: [t |-> "dict", v |-> the values in
\* order], [t |-> "list", v |-> the items], [t |-> "str", v |-> a string],
\* or [t |-> "other", v |-> <<>>] for a JSON number, boolean or null.
RECURSIVE unpack_forms(_)
unpack_forms(obj) ==
    IF obj.t = "dict"
    THEN ConcatAll([i \in DOMAIN obj.v |-> unpack_forms(obj.v[i])])
    ELSE IF obj.t = "list"
    THEN ConcatAll([i \in DOMAIN obj.v |->
            IF obj.v[i].t = "str" THEN <<obj.v[i].v>> ELSE unpack_forms(obj.v[i])])
    ELSE IF obj.t = "str" THEN <<obj.v>>
    ELSE <<>>

\* One iteration of the loop of remove_parentheticals, server.py:134-140,
\* on the state st = [paren_depth, result].
ParenStep(st, char) ==
    IF char = LPAREN THEN [st EXCEPT !.paren_depth = @ + 1]
    ELSE IF char = RPAREN THEN [st EXCEPT !.paren_depth = @ - 1]
    ELSE IF st.paren_depth = 0 THEN [st EXCEPT !.result = Append(@, char)]
    ELSE st

RECURSIVE ParenScan(_, _)
ParenScan(st, text) ==
    IF text = <<>> THEN st ELSE ParenScan(ParenStep(st, Head(text)), Tail(text))

remove_parentheticals(text) == ParenScan([paren_depth |-> 0, result |-> <<>>], text).result

-----------------------------------------------------------------------------
(* String operations of the standard library used by lookup_words.         *)

\* What \s and str.strip()/str.split() treat as whitespace (ASCII part).
IsSpace(c) == c \in {9, 10, 11, 12, 13, 32}

\* str.strip()
RECURSIVE LStrip(_)
LStrip(s) == IF s # <<>> /\ IsSpace(Head(s)) THEN LStrip(Tail(s)) ELSE s
RECURSIVE RStrip(_)
RStrip(s) ==
    IF s # <<>> /\ IsSpace(s[Len(s)]) THEN RStrip(SubSeq(s, 1, Len(s) - 1)) ELSE s
strip(s) == RStrip(LStrip(s))

\* re.sub(r"\s+", " ", s)
RECURSIVE CollapseWs(_)
CollapseWs(s) ==
    IF s = <<>> THEN <<>>
    ELSE IF IsSpace(Head(s)) THEN <<SPACE>> \o CollapseWs(LStrip(s))
    ELSE <<Head(s)>> \o CollapseWs(Tail(s))

\* str.split(): the maximal runs of non-whitespace characters.
RECURSIVE SplitAcc(_, _)
SplitAcc(s, cur) ==
    IF s = <<>> THEN (IF cur = <<>> THEN <<>> ELSE <<cur>>)
    ELSE IF IsSpace(Head(s))
    THEN (IF cur = <<>> THEN <<>> ELSE <<cur>>) \o SplitAcc(Tail(s), <<>>)
    ELSE SplitAcc(Tail(s), Append(cur, Head(s)))
split(s) == SplitAcc(s, <<>>)

\* The position of the first c in s at or after position from, 0 if none.
FirstAt(s, c, from) ==
    IF \E i \in from..Len(s) : s[i] = c
    THEN CHOOSE i \in from..Len(s) : s[i] = c /\ \A j \in from..(i - 1) : s[j] # c
    ELSE 0

\* re.findall(r'"([^"]*)"', s): the texts between successive pairs of quotes.
RECURSIVE FindQuoted(_)
FindQuoted(s) ==
    LET i == FirstAt(s, QUOTE, 1)
        j == IF i = 0 THEN 0 ELSE FirstAt(s, QUOTE, i + 1)
    IN  IF j = 0 THEN <<>>
        ELSE <<SubSeq(s, i + 1, j - 1)>> \o FindQuoted(SubSeq(s, j + 1, Len(s)))

\* re.sub(r'"[^"]*"', "", s)
RECURSIVE RemoveQuoted(_)
RemoveQuoted(s) ==
    LET i == FirstAt(s, QUOTE, 1)
        j == IF i = 0 THEN 0 ELSE FirstAt(s, QUOTE, i + 1)
    IN  IF j = 0 THEN s
        ELSE SubSeq(s, 1, i - 1) \o RemoveQuoted(SubSeq(s, j + 1, Len(s)))

\* a in b
IsSubstring(a, b) ==
    \E i \in 0..(Len(b) - Len(a)) : SubSeq(b, i + 1, i + Len(a)) = a

\* b.startswith(a)
StartsWith(b, a) == Len(a) <= Len(b) /\ SubSeq(b, 1, Len(a)) = a

\* re.search(r"[a-z]", w)
HasLatin(w) == \E i \in DOMAIN w : w[i] >= 97 /\ w[i] <= 122

-----------------------------------------------------------------------------
(* The contents of index.json and word_dict.json, server.py:29-33.  The    *)
(* program that writes these files is not part of server.py; they are      *)
(* modelled from the data model: a term is a distinct lowercase token of a *)
(* headword, in the letter form the search compares against (stress marks  *)
(* removed, variant letters collapsed); it carries the entries whose       *)
(* headword has the token; a letter maps to the terms that contain it.     *)

HeadwordTokens(w) == split(normalize_letter(strip_stress(lower(w.word))))

RECURSIVE Dedup(_)
Dedup(s) ==
    IF s = <<>> THEN <<>>
    ELSE LET r == Dedup(SubSeq(s, 1, Len(s) - 1))
         IN  IF s[Len(s)] \in Range(r) THEN r ELSE Append(r, s[Len(s)])

TermTexts(words) == Dedup(ConcatAll([i \in DOMAIN words |-> HeadwordTokens(words[i])]))

IndexData(words) ==
    LET terms == TermTexts(words)
    IN  [tid \in DOMAIN terms |->
            [word |-> terms[tid],
             indexes |-> {words[i].index : i \in
                            {j \in DOMAIN words : terms[tid] \in Range(HeadwordTokens(words[j]))}}]]

WordDictData(words) ==
    LET terms == TermTexts(words)
    IN  [c \in UNION {Range(terms[tid]) : tid \in DOMAIN terms} |->
            {tid \in DOMAIN terms : c \in Range(terms[tid])}]

-----------------------------------------------------------------------------
(* lookup_words, server.py:149-378.                                        *)

\* list(reversed(xs)), server.py:184: ret is the new list, arg the list xs
\* as the call leaves it.
ReversedInPlace(xs) == [ret |-> Reverse(xs), arg |-> Reverse(xs)]
reversed_copy(xs) == [ret |-> Reverse(xs), arg |-> xs]

\* sorted(alpha_data, key=..., reverse=True) in place of
\* list(reversed(alpha_data)): entries with equal keys keep their order.
SelectBaseSortedReverse(sort) ==
    IF sort = "freq" THEN freq_data
    ELSE IF sort = "alpha" THEN alpha_data
    ELSE IF sort = "alpha_rev" THEN Reverse(sort_by_alpha(Reverse(alpha_data)))
    ELSE freq_data

\* server.py:179-186
select_base(sort) ==
    IF sort = "freq" THEN freq_data
    ELSE IF sort = "alpha" THEN alpha_data
    ELSE IF sort = "alpha_rev" THEN reversed_copy(alpha_data).ret
    ELSE freq_data

\* server.py:189-190
PosMatches(w, pos_filter) == w.pos = pos_filter
apply_pos_filter(result_data, pos_filter) ==
    IF pos_filter # ""
    THEN SelectSeq(result_data, LAMBDA w : PosMatches(w, pos_filter))
    ELSE result_data

\* server.py:199
normalized_search_of(search_query) == CollapseWs(strip(lower(search_query)))
\* server.py:202-203
literal_phrases_of(search_query) == FindQuoted(normalized_search_of(search_query))
\* server.py:206-208
literal_words_of(search_query) ==
    LET phrases == literal_phrases_of(search_query)
    IN  ConcatAll([i \in DOMAIN phrases |-> split(phrases[i])])
\* server.py:211-213
fuzzy_words_of(search_query) ==
    split(CollapseWs(strip(RemoveQuoted(normalized_search_of(search_query)))))

\* server.py:220-223
CanIncludeAnyScript(fuzzy_words) == Len(fuzzy_words) = 1
can_include_of(fuzzy_words) == Len(fuzzy_words) = 1 /\ ~HasLatin(fuzzy_words[1])

\* word_dict_sets.get(letter, set())
LetterTerms(letter) ==
    IF letter \in DOMAIN word_dict_sets THEN word_dict_sets[letter] ELSE {}

\* server.py:234-245 and 279-288: the term ids that hold every letter of word
LetterCandidates(word) ==
    IF word = <<>> THEN {}
    ELSE {t \in UNION {LetterTerms(c) : c \in Range(word)} :
            \A c \in Range(word) : t \in LetterTerms(c)}

\* server.py:248-263 (after 231): the entries of the terms a fuzzy word matches
FuzzyEntries(raw_word, can_include) ==
    LET word == normalize_letter(raw_word)
        matching_term_ids ==
            {t \in LetterCandidates(word) :
                /\ t \in DOMAIN index_lookup
                /\ IF can_include
                   THEN IsSubstring(word, index_lookup[t].word)
                   ELSE StartsWith(index_lookup[t].word, word) \/ index_lookup[t].word = word}
    IN  UNION {index_lookup[t].indexes : t \in matching_term_ids}

\* server.py:276-302: the entries of the terms equal to a literal word
LiteralEntries(raw_word) ==
    LET word == normalize_letter(raw_word)
        matching_term_ids ==
            {t \in LetterCandidates(word) :
                t \in DOMAIN index_lookup /\ index_lookup[t].word = word}
    IN  UNION {index_lookup[t].indexes : t \in matching_term_ids}

\* server.py:266-269 and 305-308
IntersectUnion(indexes, new_indexes) ==
    IF indexes = None THEN Some(new_indexes) ELSE Some(indexes[1] \cup new_indexes)
Intersect(indexes, new_indexes) ==
    IF indexes = None THEN Some(new_indexes) ELSE Some(indexes[1] \cap new_indexes)

\* server.py:226-269
RECURSIVE FuzzyLoop(_, _, _)
FuzzyLoop(indexes, words, can_include) ==
    IF words = <<>> THEN indexes
    ELSE FuzzyLoop(Intersect(indexes, FuzzyEntries(Head(words), can_include)),
                   Tail(words), can_include)

\* server.py:272-308
RECURSIVE LiteralLoop(_, _)
LiteralLoop(indexes, words) ==
    IF words = <<>> THEN indexes
    ELSE LiteralLoop(Intersect(indexes, LiteralEntries(Head(words))), Tail(words))

\* server.py:326-331
DefsMatch(word_obj, normalized_phrase) ==
    \E i \in DOMAIN word_obj.defs :
        IsSubstring(normalized_phrase,
                    normalize_letter(lower(remove_parentheticals(word_obj.defs[i]))))
\* server.py:335-341
FormsMatch(word_obj, normalized_phrase) ==
    LET all_forms == unpack_forms(word_obj.forms)
    IN  \E i \in DOMAIN all_forms :
            normalize_letter(lower(strip_stress(all_forms[i]))) = normalized_phrase
\* server.py:344-347
HeadwordMatch(word_obj, normalized_phrase) ==
    normalize_letter(lower(strip_stress(word_obj.word))) = normalized_phrase

\* server.py:317-352: one iteration of the verification loop
VerifyPhrase(indexes, result_data, literal_phrase) ==
    LET normalized_phrase == normalize_letter(literal_phrase)
        good_indexes ==
            {result_data[i].index : i \in
                {j \in DOMAIN result_data :
                    /\ result_data[j].index \in indexes
                    /\ \/ DefsMatch(result_data[j], normalized_phrase)
                       \/ FormsMatch(result_data[j], normalized_phrase)
                       \/ HeadwordMatch(result_data[j], normalized_phrase)}}
    IN  indexes \cap good_indexes

\* server.py:312-352
RECURSIVE VerifyLoop(_, _, _)
VerifyLoop(indexes, result_data, phrases) ==
    IF phrases = <<>> \/ indexes = None THEN indexes
    ELSE VerifyLoop(Some(VerifyPhrase(indexes[1], result_data, Head(phrases))),
                    result_data, Tail(phrases))

\* server.py:197-356: the accumulated set of matching entry indexes
search_indexes(search_query, result_data) ==
    LET fuzzy_words == fuzzy_words_of(search_query)
        after_fuzzy == FuzzyLoop(None, fuzzy_words, can_include_of(fuzzy_words))
        after_literal == LiteralLoop(after_fuzzy, literal_words_of(search_query))
    IN  VerifyLoop(after_literal, result_data, literal_phrases_of(search_query))

\* `search_query and index_lookup and word_dict_sets`, server.py:197
SearchApplies(search_query) ==
    search_query # <<>> /\ DOMAIN index_lookup # {} /\ DOMAIN word_dict_sets # {}

\* server.py:355-356
apply_search(search_query, result_data) ==
    IF SearchApplies(search_query)
    THEN LET indexes == search_indexes(search_query, result_data)
         IN  IF indexes # None
             THEN SelectSeq(result_data, LAMBDA w : w.index \in indexes[1])
             ELSE result_data
    ELSE result_data

\* server.py:359-364
apply_exact(search_query, exact_match_only, result_data) ==
    IF exact_match_only /\ search_query # <<>>
    THEN LET normalized_query == strip_stress(lower(search_query))
         IN  SelectSeq(result_data,
                       LAMBDA w : strip_stress(lower(w.word)) = normalized_query)
    ELSE result_data

\* server.py:370-371
ApplyLimitNoGuard(limit, result_data) ==
    IF limit # None
    THEN (IF limit[1] >= 0
          THEN SubSeq(result_data, 1, IF limit[1] < Len(result_data) THEN limit[1] ELSE Len(result_data))
          ELSE SubSeq(result_data, 1, Len(result_data) + limit[1]))
    ELSE result_data
apply_limit(limit, result_data) ==
    IF limit # None /\ limit[1] > 0
    THEN SubSeq(result_data, 1, IF limit[1] < Len(result_data) THEN limit[1] ELSE Len(result_data))
    ELSE result_data

\* The filtered sequence before the limit, server.py:179-364
filtered(search_query, pos_filter, sort, exact_match_only) ==
    apply_exact(search_query, exact_match_only,
        apply_search(search_query, apply_pos_filter(select_base(sort), pos_filter)))

lookup_words(search_query, pos_filter, sort, limit, exact_match_only) ==
    LET result_data == filtered(search_query, pos_filter, sort, exact_match_only)
    IN  [data |-> apply_limit(limit, result_data),
         literalPhrases |->
            IF SearchApplies(search_query)
            THEN Some(literal_phrases_of(search_query)) ELSE None,
         fuzzyWords |->
            IF SearchApplies(search_query)
            THEN Some(fuzzy_words_of(search_query)) ELSE None,
         totalMatches |-> Len(result_data)]

-----------------------------------------------------------------------------
(* The data the model is run on.                                           *)

Str(v) == [t |-> "str", v |-> v]
List(v) == [t |-> "list", v |-> v]
Dict(v) == [t |-> "dict", v |-> v]
Other == [t |-> "other", v |-> <<>>]

W_kit == <<CYR_K, CYR_I, CYR_T>>
W_kit_stressed == <<CYR_K, CYR_I, STRESS, CYR_T>>
W_Kit == <<DataChar.cyr_cap_k, CYR_I, CYR_T>>
W_o == <<CYR_O>>
W_it == <<CYR_I, CYR_T>>
W_okit == <<CYR_O, CYR_K, CYR_I, CYR_T>>
W_gyit == <<CYR_GHE, CYR_YI, CYR_T>>
W_a == <<LAT_A>>
W_ba == <<DataChar.lat_b, LAT_A>>

Join(a, b) == a \o <<SPACE>> \o b
Quoted(a) == <<QUOTE>> \o a \o <<QUOTE>>
Parens(a) == <<LPAREN>> \o a \o <<RPAREN>>

\* The entries words.json may hold (without their "index").
Pool ==
    << [word |-> W_kit_stressed, pos |-> "noun", freq |-> Some(2),
        defs |-> <<Join(W_a, W_ba)>>,
        forms |-> Dict(<<List(<<Str(W_kit_stressed)>>)>>)],
       [word |-> W_Kit, pos |-> "noun", freq |-> Some(1),
        defs |-> <<>>,
        forms |-> Dict(<<>>)],
       [word |-> Join(W_o, W_kit), pos |-> "verb", freq |-> None,
        defs |-> <<>>,
        forms |-> Dict(<<List(<<Str(W_o), Dict(<<Str(W_kit_stressed)>>), Other>>)>>)],
       [word |-> Join(W_kit, W_o), pos |-> "noun", freq |-> Some(2),
        defs |-> <<Join(W_kit, Join(Parens(Join(W_o, W_kit)), W_a)),
                   W_o \o <<RPAREN, SPACE>> \o Parens(Join(W_o, W_kit))>>,
        forms |-> Dict(<<>>)],
       [word |-> W_okit, pos |-> "verb", freq |-> None,
        defs |-> <<W_okit>>,
        forms |-> List(<<Str(W_okit)>>)],
       [word |-> W_gyit, pos |-> "noun", freq |-> Some(3),
        defs |-> <<>>,
        forms |-> Dict(<<>>)],
       [word |-> W_ba, pos |-> "", freq |-> Some(1),
        defs |-> <<W_a>>,
        forms |-> Dict(<<>>)] >>

\* The selections of at most n pool entries, in the order of the pool.
Selections(n) ==
    {sel \in UNION {[1..m -> DOMAIN Pool] : m \in 1..n} :
        \A i, j \in DOMAIN sel : i < j => sel[i] < sel[j]}

Lexicon(sel) ==
    [i \in DOMAIN sel |->
        [index |-> i, word |-> Pool[sel[i]].word, pos |-> Pool[sel[i]].pos,
         freq |-> Pool[sel[i]].freq, defs |-> Pool[sel[i]].defs,
         forms |-> Pool[sel[i]].forms]]

Tokens == {W_kit, W_o, W_it, W_a}

Queries ==
    Tokens
    \cup {Join(a, b) : a \in Tokens, b \in Tokens}
    \cup {<<>>, W_kit_stressed, W_Kit, W_gyit, W_okit, W_ba,
          Quoted(W_kit), Quoted(Join(W_o, W_kit)), Quoted(Join(W_kit, W_o)),
          Join(W_kit, Quoted(W_okit)),
          <<QUOTE>> \o W_kit,
          <<SPACE>> \o W_kit \o <<SPACE, SPACE>> \o W_o \o <<SPACE>>}

PosFilters == {"", "noun"}
Sorts == {"freq", "alpha", "alpha_rev", "relevance"}
DefaultLimit == 100
Limits == {None, Some(0), Some(1), Some(DefaultLimit)}

\* The calls of the run that records its first call.
HistoryQueries == {W_kit, Join(W_kit, W_o)}
HistorySorts == {"freq", "alpha", "alpha_rev"}

\* The headwords of the run that only sorts, and the texts that are scanned.
KeyChars ==
    {CYR_HE, CYR_GHE, CYR_DE, DataChar.cyr_cap_a, STRESS, DIGIT0, DataChar.hyphen, LAT_Z}
ScanChars == {LPAREN, RPAREN, LAT_A}
StringsOver(chars, n) == UNION {[1..m -> chars] : m \in 0..n}

-----------------------------------------------------------------------------
(* The process: startup (server.py:26-91), then lookups.                   *)

NoScan ==
    /\ scan_text = <<>>
    /\ scan_pos = 0
    /\ paren_depth = 0
    /\ scan_result = <<>>

\* After the three files are read, server.py:26-33.
Loaded(words) ==
    /\ words_data = words
    /\ freq_data = <<>>
    /\ alpha_data = <<>>
    /\ index_lookup = <<>>
    /\ word_dict_sets = <<>>
    /\ pc = "sort"
    /\ call = None
    /\ result = None
    /\ first = None

Init ==
    /\ \E sel \in Selections(MaxEntries) : Loaded(Lexicon(sel))
    /\ NoScan

\* server.py:69-78
SortData ==
    /\ pc = "sort"
    /\ freq_data' = sort_by_freq(words_data)
    /\ alpha_data' = sort_by_alpha(words_data)
    /\ pc' = "index"
    /\ UNCHANGED <<words_data, index_lookup, word_dict_sets, call, result, first>>
    /\ UNCHANGED scan_vars

\* server.py:80-91
BuildIndex ==
    /\ pc = "index"
    /\ index_lookup' = IndexData(words_data)
    /\ word_dict_sets' = WordDictData(words_data)
    /\ pc' = "serve"
    /\ UNCHANGED <<words_data, freq_data, alpha_data, call, result, first>>
    /\ UNCHANGED scan_vars

Args(search_query, pos_filter, sort, limit, exact_match_only) ==
    [search_query |-> search_query, pos_filter |-> pos_filter, sort |-> sort,
     limit |-> limit, exact_match_only |-> exact_match_only]

\* One call of lookup_words, server.py:149-378.
LookupCall(search_query, pos_filter, sort, limit, exact_match_only) ==
    /\ pc = "serve"
    /\ call' = Some(Args(search_query, pos_filter, sort, limit, exact_match_only))
    /\ result' = Some(lookup_words(search_query, pos_filter, sort, limit, exact_match_only))
    /\ alpha_data' = IF sort = "alpha_rev" THEN reversed_copy(alpha_data).arg ELSE alpha_data
    /\ pc' = "return"
    /\ UNCHANGED <<words_data, freq_data, index_lookup, word_dict_sets>>
    /\ UNCHANGED scan_vars

\* lookup_words returns, server.py:373-378: its arguments and locals are gone.
Return ==
    /\ pc = "return"
    /\ pc' = "serve"
    /\ call' = None
    /\ result' = None
    /\ UNCHANGED <<model_vars, first>>
    /\ UNCHANGED scan_vars

Lookup ==
    \E q \in Queries, p \in PosFilters, s \in Sorts, l \in Limits, x \in BOOLEAN :
        /\ LookupCall(q, p, s, l, x)
        /\ UNCHANGED first

Next == SortData \/ BuildIndex \/ Lookup \/ Return

Spec == Init /\ [][Next]_vars

\* The same process, remembering its first call, its result, and whether a
\* call with other arguments has run since.
LookupRecorded ==
    \E q \in HistoryQueries, s \in HistorySorts, x \in BOOLEAN :
        /\ LookupCall(q, "", s, None, x)
        /\ first' = IF first = None THEN <<call', result', FALSE>>
                    ELSE <<first[1], first[2], first[3] \/ call' # first[1]>>

NextHistory == SortData \/ BuildIndex \/ LookupRecorded \/ Return

SpecHistory == Init /\ [][NextHistory]_vars

\* Startup alone, on two entries with arbitrary headwords.
KeyEntry(i, w) ==
    [index |-> i, word |-> w, pos |-> "noun", freq |-> None, defs |-> <<>>,
     forms |-> Dict(<<>>)]

InitKey ==
    /\ \E s \in StringsOver(KeyChars, MaxKeyLen), t \in StringsOver(KeyChars, MaxKeyLen) :
            Loaded(<<KeyEntry(1, s), KeyEntry(2, t)>>)
    /\ NoScan

NextKey == SortData

SpecKey == InitKey /\ [][NextKey]_vars

\* remove_parentheticals alone, one iteration of its loop at a time,
\* server.py:132-141.
InitScan ==
    /\ scan_text \in StringsOver(ScanChars, MaxScanLen)
    /\ scan_pos = 0
    /\ paren_depth = 0
    /\ scan_result = <<>>
    /\ words_data = <<>>
    /\ freq_data = <<>>
    /\ alpha_data = <<>>
    /\ index_lookup = <<>>
    /\ word_dict_sets = <<>>
    /\ pc = "scan"
    /\ call = None
    /\ result = None
    /\ first = None

ScanChar ==
    /\ pc = "scan"
    /\ scan_pos < Len(scan_text)
    /\ LET st == ParenStep([paren_depth |-> paren_depth, result |-> scan_result],
                           scan_text[scan_pos + 1])
       IN  /\ paren_depth' = st.paren_depth
           /\ scan_result' = st.result
    /\ scan_pos' = scan_pos + 1
    /\ UNCHANGED <<model_vars, pc, call, result, first, scan_text>>

NextScan == ScanChar

SpecScan == InitScan /\ [][NextScan]_vars

-----------------------------------------------------------------------------
(* Properties.                                                             *)

Returned == pc = "return"
TheCall == call[1]
TheResult == result[1]
Returned_data == Range(TheResult.data)

\* The same call with another query.
LookupWith(search_query) ==
    lookup_words(search_query, TheCall.pos_filter, TheCall.sort, TheCall.limit,
                 TheCall.exact_match_only)

\* Lowercase, stress marks stripped; and with the variant letters collapsed.
Normalized(s) == strip_stress(lower(s))
SearchForm(s) == normalize_letter(strip_stress(lower(s)))

\* The terms of an entry, and whether one of them starts with / contains
\* a word.
TermsOf(e) == {t \in DOMAIN index_lookup : e.index \in index_lookup[t].indexes}
HasPrefixTerm(e, w) ==
    \E t \in TermsOf(e) : StartsWith(index_lookup[t].word, normalize_letter(w))
HasSubstringTerm(e, w) ==
    \E t \in TermsOf(e) : IsSubstring(normalize_letter(w), index_lookup[t].word)

\* The scan of the parenthetical stripping as the design states it: a
\* closing parenthesis at depth 0 is ignored.
ClampedStep(st, char) ==
    IF char = LPAREN THEN [st EXCEPT !.paren_depth = @ + 1]
    ELSE IF char = RPAREN
    THEN [st EXCEPT !.paren_depth = IF @ > 0 THEN @ - 1 ELSE 0]
    ELSE IF st.paren_depth = 0 THEN [st EXCEPT !.result = Append(@, char)]
    ELSE st

RECURSIVE ClampedScan(_, _)
ClampedScan(st, text) ==
    IF text = <<>> THEN st ELSE ClampedScan(ClampedStep(st, Head(text)), Tail(text))

SpansRemoved(text) == ClampedScan([paren_depth |-> 0, result |-> <<>>], text).result

\* C1: for every loaded entry e, the call lookup(query = e.headword,
\* exactMatchOnly = true) with the other parameters at their defaults
\* returns data that contains e.
C1_HeadwordFound ==
    (/\ Returned
     /\ TheCall.exact_match_only
     /\ TheCall.pos_filter = ""
     /\ TheCall.sort = "freq"
     /\ TheCall.limit = Some(DefaultLimit))
    => \A i \in DOMAIN words_data :
          words_data[i].word = TheCall.search_query => words_data[i] \in Returned_data

\* C2: two exact-match queries that differ only in letter case and in
\* stress marks, with the other parameters equal, return the same data and
\* the same totalMatches.
C2_CaseStressInsensitive ==
    (Returned /\ TheCall.exact_match_only)
    => \A q2 \in Queries :
          Normalized(q2) = Normalized(TheCall.search_query)
          => /\ LookupWith(q2).data = TheResult.data
             /\ LookupWith(q2).totalMatches = TheResult.totalMatches

\* C3: with the exact-match flag off, every entry returned for a query
\* with a literal phrase P (of at least one word) has (a) a definition that,
\* with its parenthesized spans removed and normalized, contains the
\* normalized P, or (b) a forms leaf that, normalized, equals P, or (c) a
\* headword that, normalized, equals P.
PhraseHolds(e, P) ==
    \/ \E i \in DOMAIN e.defs : IsSubstring(SearchForm(P), SearchForm(SpansRemoved(e.defs[i])))
    \/ \E i \in DOMAIN unpack_forms(e.forms) :
            SearchForm(unpack_forms(e.forms)[i]) = SearchForm(P)
    \/ SearchForm(e.word) = SearchForm(P)

C3_PhraseVerbatim ==
    (Returned /\ ~TheCall.exact_match_only /\ TheResult.literalPhrases # None)
    => \A i \in DOMAIN TheResult.literalPhrases[1] :
          split(TheResult.literalPhrases[1][i]) # <<>>
          => \A e \in Returned_data : PhraseHolds(e, TheResult.literalPhrases[1][i])

\* C4 as claimed: unless the query has exactly one fuzzy token, no literal
\* phrase, and no Latin letter in that token, every fuzzy token is matched
\* by prefix: every returned entry has, for each fuzzy token, a term that
\* starts with it.
C4_PolicyAsClaimed ==
    (Returned /\ TheResult.fuzzyWords # None)
    => LET fw == TheResult.fuzzyWords[1]
           substring == /\ Len(fw) = 1
                        /\ TheResult.literalPhrases[1] = <<>>
                        /\ ~HasLatin(fw[1])
       IN  ~substring => \A e \in Returned_data : \A i \in DOMAIN fw : HasPrefixTerm(e, fw[i])

\* C4 as amended: the substring policy applies exactly when the query has
\* exactly one fuzzy token and that token has no Latin letter a-z, whether
\* or not the query has literal phrases.  Otherwise every returned entry
\* has, for each fuzzy token, a term that starts with it.  Under the
\* substring policy every returned entry has a term that contains the
\* token, and with no phrase, no filter, no limit and the exact-match flag
\* off every entry with such a term is returned.
C4_PolicyAmended ==
    (Returned /\ TheResult.fuzzyWords # None)
    => LET fw == TheResult.fuzzyWords[1]
           substring == Len(fw) = 1 /\ ~HasLatin(fw[1])
       IN  /\ ~substring
              => \A e \in Returned_data : \A i \in DOMAIN fw : HasPrefixTerm(e, fw[i])
           /\ substring
              => \A e \in Returned_data : HasSubstringTerm(e, fw[1])
           /\ (/\ substring
               /\ TheResult.literalPhrases[1] = <<>>
               /\ ~TheCall.exact_match_only
               /\ TheCall.pos_filter = ""
               /\ TheCall.limit = None)
              => \A i \in DOMAIN words_data :
                    HasSubstringTerm(words_data[i], fw[1]) => words_data[i] \in Returned_data

\* A query with one fuzzy token and a literal phrase returns an entry none
\* of whose terms starts with the token.
C4_Witness ==
    /\ Returned
    /\ TheResult.fuzzyWords # None
    /\ Len(TheResult.fuzzyWords[1]) = 1
    /\ TheResult.literalPhrases[1] # <<>>
    /\ \E e \in Returned_data : ~HasPrefixTerm(e, TheResult.fuzzyWords[1][1])

\* C5 as claimed: with the exact-match flag off, lookup(q = 'A B') returns
\* only entries that are candidates of A and of B, and lookup(q = 'A') with
\* the same filter, sort and limit returns a superset of it.
C5_AsClaimed ==
    (Returned /\ ~TheCall.exact_match_only)
    => \A A \in Tokens, B \in Tokens :
          TheCall.search_query = Join(A, B)
          => /\ \A e \in Returned_data : HasPrefixTerm(e, A) /\ HasPrefixTerm(e, B)
             /\ Returned_data \subseteq Range(LookupWith(A).data)

\* C5 as amended: lookup(q = 'A B') returns only entries that are
\* candidates of A and of B; the sequence lookup(q = 'A') filters, before
\* its limit is applied, holds every entry of that of lookup(q = 'A B');
\* and the data of lookup(q = 'A') is a superset of the data of
\* lookup(q = 'A B') whenever the limit does not truncate lookup(q = 'A').
C5_Amended ==
    (Returned /\ ~TheCall.exact_match_only)
    => \A A \in Tokens, B \in Tokens :
          TheCall.search_query = Join(A, B)
          => /\ \A e \in Returned_data : HasPrefixTerm(e, A) /\ HasPrefixTerm(e, B)
             /\ Range(filtered(Join(A, B), TheCall.pos_filter, TheCall.sort, FALSE))
                    \subseteq Range(filtered(A, TheCall.pos_filter, TheCall.sort, FALSE))
             /\ LookupWith(A).totalMatches >= TheResult.totalMatches
             /\ LookupWith(A).totalMatches = Len(LookupWith(A).data)
                => Returned_data \subseteq Range(LookupWith(A).data)

\* A two-token query returns entries, and its first token alone returns more.
C5_Witness ==
    /\ Returned
    /\ ~TheCall.exact_match_only
    /\ \E A \in Tokens, B \in Tokens :
          /\ A # B
          /\ TheCall.search_query = Join(A, B)
          /\ TheResult.data # <<>>
          /\ Len(LookupWith(A).data) > Len(TheResult.data)

\* C6: totalMatches >= len(data); when the limit is absent, non-positive or
\* >= totalMatches, data is the whole filtered sequence and totalMatches =
\* len(data); otherwise data is its first `limit` elements.
C6_TotalAndLimit ==
    Returned
    => LET whole == filtered(TheCall.search_query, TheCall.pos_filter, TheCall.sort,
                             TheCall.exact_match_only)
           total == TheResult.totalMatches
       IN  /\ total >= Len(TheResult.data)
           /\ total = Len(whole)
           /\ IF TheCall.limit = None \/ TheCall.limit[1] <= 0 \/ TheCall.limit[1] >= total
              THEN TheResult.data = whole /\ total = Len(TheResult.data)
              ELSE TheResult.data = SubSeq(whole, 1, TheCall.limit[1])

\* A call whose limit cuts the result.
C6_Witness ==
    /\ Returned
    /\ TheCall.limit # None
    /\ TheCall.limit[1] > 0
    /\ TheResult.totalMatches > Len(TheResult.data)

\* C7: with the same query, filter and exact-match flag, sort = "alpha_rev"
\* has the totalMatches of sort = "alpha", and its filtered sequence before
\* the limit is the reverse of that of sort = "alpha".
C7_AlphaRevIsReverse ==
    (Returned /\ TheCall.sort = "alpha_rev")
    => LET alpha == lookup_words(TheCall.search_query, TheCall.pos_filter, "alpha",
                                 None, TheCall.exact_match_only)
       IN  /\ TheResult.totalMatches = alpha.totalMatches
           /\ TheCall.limit = None => TheResult.data = Reverse(alpha.data)

\* An unlimited "alpha_rev" call returns two entries with the same sort key.
C7_Witness ==
    /\ Returned
    /\ TheCall.sort = "alpha_rev"
    /\ TheCall.limit = None
    /\ \E i, j \in DOMAIN TheResult.data :
          /\ i < j
          /\ AlphaKey(TheResult.data[i]) = AlphaKey(TheResult.data[j])

\* The alphabet position of a Ukrainian letter; the comparison of two
\* normalized strings letter by letter: two Ukrainian letters by alphabet
\* position, two other characters by code point; 2 when the first
\* difference sets a Ukrainian letter against another character, which no
\* rule orders.
IsUkr(c) == c \in Range(UkrLetters)
AlphaPos(c) == CHOOSE i \in DOMAIN UkrLetters : UkrLetters[i] = c
RECURSIVE RefCmp(_, _)
RefCmp(a, b) ==
    IF a = <<>> THEN (IF b = <<>> THEN 0 ELSE -1)
    ELSE IF b = <<>> THEN 1
    ELSE IF Head(a) = Head(b) THEN RefCmp(Tail(a), Tail(b))
    ELSE IF IsUkr(Head(a)) /\ IsUkr(Head(b))
    THEN (IF AlphaPos(Head(a)) < AlphaPos(Head(b)) THEN -1 ELSE 1)
    ELSE IF ~IsUkr(Head(a)) /\ ~IsUkr(Head(b))
    THEN (IF Head(a) < Head(b) THEN -1 ELSE 1)
    ELSE 2

KeysAgree(s, t) ==
    LET ref == RefCmp(Normalized(s), Normalized(t))
        key == StrCmp(ukrainian_sort_key(s), ukrainian_sort_key(t))
    IN  IF ref = 2 THEN key # 0 ELSE key = ref

\* A character outside the map that is itself one of the key characters.
Collides(s) ==
    \E i \in DOMAIN Normalized(s) :
        ~IsUkr(Normalized(s)[i]) /\ Normalized(s)[i] \in Range(UkrKeyChars)

InOrder(words) ==
    \A i, j \in DOMAIN words :
        i < j => RefCmp(Normalized(words[i].word), Normalized(words[j].word)) # 1

\* C8 as claimed: for any two strings the comparison of their sort keys is
\* the letter-by-letter comparison of the lowercased, stress-free strings,
\* and alpha_data is in that order.
C8_AsClaimed ==
    pc = "index"
    => /\ KeysAgree(words_data[1].word, words_data[2].word)
       /\ InOrder(alpha_data)

\* C8 restricted: the same, for strings none of whose characters is an
\* unmapped character equal to a key character of the map (a digit or one
\* of : ; < ? @), which gets the key of a Ukrainian letter.
C8_Amended ==
    (pc = "index" /\ \A i \in DOMAIN words_data : ~Collides(words_data[i].word))
    => /\ KeysAgree(words_data[1].word, words_data[2].word)
       /\ InOrder(alpha_data)

\* Two headwords that the alphabet orders against their code points, sorted.
C8_Witness ==
    /\ pc = "index"
    /\ \A i \in DOMAIN words_data : ~Collides(words_data[i].word)
    /\ RefCmp(Normalized(words_data[1].word), Normalized(words_data[2].word)) = 1
    /\ StrCmp(Normalized(words_data[1].word), Normalized(words_data[2].word)) = -1
    /\ alpha_data = <<words_data[2], words_data[1]>>

\* C9: no lookup changes the model, and a call with the arguments of the
\* first call returns what the first call returned, whatever ran between.
C9_ReadOnly ==
    /\ [][(pc \in {"serve", "return"}) => UNCHANGED model_vars]_vars
    /\ []((first # None /\ Returned /\ call = first[1]) => (result = first[2]))

\* The first call is repeated after a call with other arguments.
C9_Witness ==
    /\ Returned
    /\ first # None
    /\ first[3]
    /\ call = first[1]
    /\ TheCall.sort = "alpha"

\* C10: in the scan of remove_parentheticals the depth is >= 0 after every
\* character, and the text emitted so far is that of the scan that ignores
\* a closing parenthesis at depth 0 (so text after it is still emitted).
C10_DepthNeverNegative ==
    pc = "scan"
    => /\ paren_depth >= 0
       /\ scan_result = SpansRemoved(SubSeq(scan_text, 1, scan_pos))

====
